---- MODULE Spec2Model ----
(***************************************************************************)
(* PasswordManager (src/src/components/PasswordManager.tsx): the React     *)
(* component state, its event handlers, and the remote "passwords" table   *)
(* it talks to through asynchronous calls.                                 *)
(*                                                                         *)
(* A JavaScript string is a sequence of one-character strings, so "" is    *)
(* <<>>.  An asynchronous call is an entry of `calls`: it is "sent" by a   *)
(* handler, "served" by the remote store (which fixes its outcome) and     *)
(* then delivered, at which point the code after the `await` runs.  Calls  *)
(* are independent HTTP requests: they are served and delivered in any     *)
(* order.                                                                  *)
(***************************************************************************)
EXTENDS Naturals, Sequences, FiniteSets

\* ------------------------------------------------------------------ bounds
\* Rows the remote store ever assigns an id to.
MaxId == 1
\* Remote calls in flight at once.
MaxInFlight == 2
\* Math.random() is num / RandDen for num in 0 .. RandDen-1.
RandDen == 5

\* ------------------------------------------------------------ generatePassword
chars ==
    <<"A", "B", "C", "D", "E", "F", "G", "H", "I", "J", "K", "L", "M",
      "N", "O", "P", "Q", "R", "S", "T", "U", "V", "W", "X", "Y", "Z",
      "a", "b", "c", "d", "e", "f", "g", "h", "i", "j", "k", "l", "m",
      "n", "o", "p", "q", "r", "s", "t", "u", "v", "w", "x", "y", "z",
      "0", "1", "2", "3", "4", "5", "6", "7", "8", "9",
      "!", "@", "#", "$", "%", "^", "&", "*">>

length == 16

\* charAt read as if its index were 1-based.
CharAt_OneBased(s, i) == IF i >= 1 /\ i <= Len(s) THEN <<s[i]>> ELSE <<>>

\* String.prototype.charAt: the character at a 0-based index, "" out of range.
CharAt(s, i) == IF i >= 0 /\ i < Len(s) THEN <<s[i + 1]>> ELSE <<>>

\* Math.floor(Math.random() * chars.length) with Math.random() = num / RandDen.
RandomIndex(num) == (num * Len(chars)) \div RandDen

\* The for loop of generatePassword; tape[i + 1] is the random draw of round i.
RECURSIVE GenerateLoop(_, _, _)
GenerateLoop(i, result, tape) ==
    IF i < length
    THEN GenerateLoop(i + 1, result \o CharAt(chars, RandomIndex(tape[i + 1])), tape)
    ELSE result

generatePassword(tape) == GenerateLoop(0, <<>>, tape)

\* Outcomes of the random source over one call: every draw equal.
ConstantTape(num) == [i \in 1 .. length |-> num]
\* ... and every draw equal but the one at position p.
TapeWith(num, p, other) == [i \in 1 .. length |-> IF i = p THEN other ELSE num]

Draws == 0 .. RandDen - 1
MainTapes == {ConstantTape(RandDen - 1)}
Tapes == {TapeWith(num, p, other) : num \in Draws, p \in 1 .. length, other \in Draws}

\* ------------------------------------------------------------------- data
\* notes?: string -- a row's notes may be absent.
NullNotes == <<"null">>
EmptyForm == [website |-> <<>>, username |-> <<>>, password |-> <<>>, notes |-> <<>>]
\* editingPassword = null
NoPassword ==
    [id |-> 0, website |-> <<>>, username |-> <<>>, password |-> <<>>,
     notes |-> NullNotes, created_at |-> 0]

\* The inputs the user types into and what is typed; the notes input is
\* filled only by the Edit button.
Fields == {"website", "username", "password"}
TypedValues == {<<"a">>}

\* A row already in the table when the component mounts, stored without notes.
SeedRow ==
    [id |-> 1, website |-> <<"a">>, username |-> <<"a">>, password |-> <<"a">>,
     notes |-> NullNotes, created_at |-> 1]
SeedStores == {{}, {SeedRow}}
\* A second such row, newer than the first.
SeedRow2 ==
    [id |-> 2, website |-> <<"a">>, username |-> <<"a">>, password |-> <<"a">>,
     notes |-> <<"a">>, created_at |-> 2]

VARIABLES
    passwords,        \* useState<Password[]>([])
    loading,          \* useState(true)
    showPasswords,    \* useState<Record<string, boolean>>({})
    isAddDialogOpen,  \* useState(false)
    editingPassword,  \* useState<Password | null>(null)
    formData,         \* useState({website: "", ...})
    toasts,           \* the toast the last step showed, "none" when it showed none
    store,            \* the rows of the remote 'passwords' table
    nextId,           \* the id (and created_at) the store assigns to its next row
    calls             \* remote calls in flight, in the order they were issued

vars ==
    <<passwords, loading, showPasswords, isAddDialogOpen, editingPassword,
      formData, toasts, store, nextId, calls>>

local == <<passwords, loading, showPasswords, isAddDialogOpen, editingPassword,
           formData>>

\* A step that calls toast() nowhere.
NoToast == toasts' = "none"

\* ------------------------------------------------------------ remote store
\* .order('created_at', { ascending: false })
RECURSIVE OrderDesc(_)
OrderDesc(rows) ==
    IF rows = {} THEN <<>>
    ELSE LET newest == CHOOSE r \in rows : \A q \in rows : q.created_at <= r.created_at
         IN  <<newest>> \o OrderDesc(rows \ {newest})

Call(kind, id, payload) ==
    [kind |-> kind, id |-> id, payload |-> payload, stage |-> "sent",
     error |-> FALSE, data |-> <<>>]

Served(c, error, data) ==
    [c EXCEPT !.stage = "served", !.error = error, !.data = data]

Remove(s, i) == SubSeq(s, 1, i - 1) \o SubSeq(s, i + 1, Len(s))

\* ------------------------------------------------------------------- Init
\* The state after the first render and its effect: useEffect has called
\* fetchPasswords(), whose list call is in flight.
Init ==
    /\ passwords = <<>>
    /\ loading = TRUE
    /\ showPasswords = <<>>
    /\ isAddDialogOpen = FALSE
    /\ editingPassword = NoPassword
    /\ formData = EmptyForm
    /\ toasts = "none"
    /\ store \in SeedStores
    /\ nextId = Cardinality(store) + 1
    /\ calls = <<Call("list", 0, EmptyForm)>>

\* --------------------------------------------------------- what is rendered
\* `if (loading) return <div>Loading...</div>`: no control exists while loading.
Rendered == ~loading
\* One of the two forms is on screen: the add dialog's or the edit dialog's.
FormShown == Rendered /\ (isAddDialogOpen \/ editingPassword # NoPassword)
\* The cards: passwords.map((password) => <Card key={password.id}> ...)
Cards == {passwords[k] : k \in DOMAIN passwords}
\* The inputs marked `required` block the submit event while empty.
RequiredFilled ==
    /\ formData.website # <<>>
    /\ formData.username # <<>>
    /\ formData.password # <<>>

\* showPasswords[id] read as a condition: a missing key is undefined, falsy.
Shown(flags, id) == id \in DOMAIN flags /\ flags[id]

\* ------------------------------------------------------------ fetchPasswords
\* The call fetchPasswords() issues before its await, added to the calls cs.
fetchPasswords(cs) == Append(cs, Call("list", 0, EmptyForm))

\* `data || []`
DataOrEmpty(c) == IF c.error THEN <<>> ELSE c.data

\* fetchPasswords clearing the list when the call fails.
FetchPasswordsResume_ClearsOnError(i) ==
    /\ calls[i].kind = "list" /\ calls[i].stage = "served"
    /\ IF calls[i].error
       THEN /\ toasts' = "Failed to load passwords"
            /\ passwords' = <<>>
       ELSE /\ passwords' = DataOrEmpty(calls[i])
            /\ NoToast
    /\ loading' = FALSE
    /\ calls' = Remove(calls, i)
    /\ UNCHANGED <<showPasswords, isAddDialogOpen, editingPassword, formData,
                   store, nextId>>

\* The rest of fetchPasswords, run when its list call returns.
FetchPasswordsResume(i) ==
    /\ calls[i].kind = "list" /\ calls[i].stage = "served"
    /\ IF calls[i].error
       THEN /\ toasts' = "Failed to load passwords"
            /\ UNCHANGED passwords
       ELSE /\ passwords' = DataOrEmpty(calls[i])
            /\ NoToast
    /\ loading' = FALSE
    /\ calls' = Remove(calls, i)
    /\ UNCHANGED <<showPasswords, isAddDialogOpen, editingPassword, formData,
                   store, nextId>>

\* ---------------------------------------------------------- generatePassword
GeneratePassword(tapes) ==
    /\ FormShown
    /\ \E tape \in tapes :
         formData' = [formData EXCEPT !.password = generatePassword(tape)]
    /\ UNCHANGED <<passwords, loading, showPasswords, isAddDialogOpen,
                   editingPassword, store, nextId, calls>>
    /\ NoToast

\* onChange={(e) => setFormData({ ...formData, <field>: e.target.value })}
SetField ==
    /\ FormShown
    /\ \E f \in Fields, v \in TypedValues :
         formData' = [formData EXCEPT ![f] = v]
    /\ UNCHANGED <<passwords, loading, showPasswords, isAddDialogOpen,
                   editingPassword, store, nextId, calls>>
    /\ NoToast

\* -------------------------------------------------------------- handleSubmit
\* handleSubmit up to its await: the branch on editingPassword and the call.
HandleSubmit ==
    /\ FormShown /\ RequiredFilled
    /\ Len(calls) < MaxInFlight
    /\ calls' = IF editingPassword # NoPassword
                THEN Append(calls, Call("update", editingPassword.id, formData))
                ELSE Append(calls, Call("insert", 0, formData))
    /\ NoToast
    /\ UNCHANGED <<local, store, nextId>>

\* handleSubmit resetting the form only when the call succeeded.
HandleSubmitResume_KeepOnError(i) ==
    /\ calls[i].kind \in {"update", "insert"} /\ calls[i].stage = "served"
    /\ IF calls[i].kind = "update"
       THEN IF calls[i].error
            THEN /\ toasts' = "Failed to update password"
                 /\ calls' = Remove(calls, i)
                 /\ UNCHANGED <<editingPassword, isAddDialogOpen>>
            ELSE /\ toasts' = "Password updated successfully"
                 /\ calls' = fetchPasswords(Remove(calls, i))
                 /\ editingPassword' = NoPassword
                 /\ UNCHANGED isAddDialogOpen
       ELSE IF calls[i].error
            THEN /\ toasts' = "Failed to add password"
                 /\ calls' = Remove(calls, i)
                 /\ UNCHANGED <<editingPassword, isAddDialogOpen>>
            ELSE /\ toasts' = "Password added successfully"
                 /\ calls' = fetchPasswords(Remove(calls, i))
                 /\ isAddDialogOpen' = FALSE
                 /\ UNCHANGED editingPassword
    /\ formData' = IF calls[i].error THEN formData ELSE EmptyForm
    /\ UNCHANGED <<passwords, loading, showPasswords, store, nextId>>

\* handleSubmit leaving the edit flow whether or not the update succeeded.
HandleSubmitResume_LeavesEditOnError(i) ==
    /\ calls[i].kind \in {"update", "insert"} /\ calls[i].stage = "served"
    /\ IF calls[i].kind = "update"
       THEN IF calls[i].error
            THEN /\ toasts' = "Failed to update password"
                 /\ calls' = Remove(calls, i)
                 /\ editingPassword' = NoPassword
                 /\ UNCHANGED isAddDialogOpen
            ELSE /\ toasts' = "Password updated successfully"
                 /\ calls' = fetchPasswords(Remove(calls, i))
                 /\ editingPassword' = NoPassword
                 /\ UNCHANGED isAddDialogOpen
       ELSE IF calls[i].error
            THEN /\ toasts' = "Failed to add password"
                 /\ calls' = Remove(calls, i)
                 /\ UNCHANGED <<editingPassword, isAddDialogOpen>>
            ELSE /\ toasts' = "Password added successfully"
                 /\ calls' = fetchPasswords(Remove(calls, i))
                 /\ isAddDialogOpen' = FALSE
                 /\ UNCHANGED editingPassword
    /\ formData' = EmptyForm
    /\ UNCHANGED <<passwords, loading, showPasswords, store, nextId>>

\* handleSubmit closing the add dialog whether or not the insert succeeded.
HandleSubmitResume_ClosesOnError(i) ==
    /\ calls[i].kind \in {"update", "insert"} /\ calls[i].stage = "served"
    /\ IF calls[i].kind = "update"
       THEN IF calls[i].error
            THEN /\ toasts' = "Failed to update password"
                 /\ calls' = Remove(calls, i)
                 /\ UNCHANGED <<editingPassword, isAddDialogOpen>>
            ELSE /\ toasts' = "Password updated successfully"
                 /\ calls' = fetchPasswords(Remove(calls, i))
                 /\ editingPassword' = NoPassword
                 /\ UNCHANGED isAddDialogOpen
       ELSE IF calls[i].error
            THEN /\ toasts' = "Failed to add password"
                 /\ calls' = Remove(calls, i)
                 /\ isAddDialogOpen' = FALSE
                 /\ UNCHANGED editingPassword
            ELSE /\ toasts' = "Password added successfully"
                 /\ calls' = fetchPasswords(Remove(calls, i))
                 /\ isAddDialogOpen' = FALSE
                 /\ UNCHANGED editingPassword
    /\ formData' = EmptyForm
    /\ UNCHANGED <<passwords, loading, showPasswords, store, nextId>>

\* handleSubmit after its await, in the branch the call was issued in.
HandleSubmitResume(i) ==
    /\ calls[i].kind \in {"update", "insert"} /\ calls[i].stage = "served"
    /\ IF calls[i].kind = "update"
       THEN IF calls[i].error
            THEN /\ toasts' = "Failed to update password"
                 /\ calls' = Remove(calls, i)
                 /\ UNCHANGED <<editingPassword, isAddDialogOpen>>
            ELSE /\ toasts' = "Password updated successfully"
                 /\ calls' = fetchPasswords(Remove(calls, i))
                 /\ editingPassword' = NoPassword
                 /\ UNCHANGED isAddDialogOpen
       ELSE IF calls[i].error
            THEN /\ toasts' = "Failed to add password"
                 /\ calls' = Remove(calls, i)
                 /\ UNCHANGED <<editingPassword, isAddDialogOpen>>
            ELSE /\ toasts' = "Password added successfully"
                 /\ calls' = fetchPasswords(Remove(calls, i))
                 /\ isAddDialogOpen' = FALSE
                 /\ UNCHANGED editingPassword
    /\ formData' = EmptyForm
    /\ UNCHANGED <<passwords, loading, showPasswords, store, nextId>>

\* ------------------------------------------------------------ deletePassword
DeletePassword ==
    /\ Rendered
    /\ Len(calls) < MaxInFlight
    /\ \E p \in Cards : calls' = Append(calls, Call("delete", p.id, EmptyForm))
    /\ NoToast
    /\ UNCHANGED <<local, store, nextId>>

\* deletePassword without its fetchPasswords() call.
DeletePasswordResume_NoRefresh(i) ==
    /\ calls[i].kind = "delete" /\ calls[i].stage = "served"
    /\ IF calls[i].error
       THEN /\ toasts' = "Failed to delete password"
            /\ calls' = Remove(calls, i)
       ELSE /\ toasts' = "Password deleted"
            /\ calls' = Remove(calls, i)
    /\ UNCHANGED <<passwords, loading, showPasswords, isAddDialogOpen,
                   editingPassword, formData, store, nextId>>

\* deletePassword after its await.
DeletePasswordResume(i) ==
    /\ calls[i].kind = "delete" /\ calls[i].stage = "served"
    /\ IF calls[i].error
       THEN /\ toasts' = "Failed to delete password"
            /\ calls' = Remove(calls, i)
       ELSE /\ toasts' = "Password deleted"
            /\ calls' = fetchPasswords(Remove(calls, i))
    /\ UNCHANGED <<passwords, loading, showPasswords, isAddDialogOpen,
                   editingPassword, formData, store, nextId>>

\* ----------------------------------------------------------- other handlers
\* copyToClipboard(password.username, "Username") / (password.password, "Password")
CopyToClipboard ==
    /\ Rendered
    /\ \E p \in Cards :
         \E type \in {"Username", "Password"} : toasts' = type \o " copied to clipboard"
    /\ UNCHANGED <<passwords, loading, showPasswords, isAddDialogOpen,
                   editingPassword, formData, store, nextId, calls>>

\* The updater without its spread: ({ [id]: !prev[id] }).
togglePasswordVisibility_DropsOthers(prev, id) == [k \in {id} |-> ~Shown(prev, id)]

\* setShowPasswords(prev => ({ ...prev, [id]: !prev[id] }))
togglePasswordVisibility(prev, id) ==
    [k \in DOMAIN prev \cup {id} |-> IF k = id THEN ~Shown(prev, id) ELSE prev[k]]

TogglePasswordVisibility ==
    /\ Rendered
    /\ \E p \in Cards : showPasswords' = togglePasswordVisibility(showPasswords, p.id)
    /\ UNCHANGED <<passwords, loading, isAddDialogOpen, editingPassword, formData,
                   store, nextId, calls>>
    /\ NoToast

\* `password.notes || ""`
NotesOrEmpty(p) == IF p.notes = NullNotes THEN <<>> ELSE p.notes

\* The Edit button of a card.
BeginEdit ==
    /\ Rendered
    /\ \E p \in Cards :
         /\ editingPassword' = p
         /\ formData' = [website |-> p.website, username |-> p.username,
                         password |-> p.password, notes |-> NotesOrEmpty(p)]
    /\ UNCHANGED <<passwords, loading, showPasswords, isAddDialogOpen,
                   store, nextId, calls>>
    /\ NoToast

\* The edit dialog's onOpenChange and its Cancel button: setEditingPassword(null).
CancelEdit ==
    /\ Rendered
    /\ editingPassword # NoPassword
    /\ editingPassword' = NoPassword
    /\ UNCHANGED <<passwords, loading, showPasswords, isAddDialogOpen, formData,
                   store, nextId, calls>>
    /\ NoToast

\* The add dialog's onOpenChange={setIsAddDialogOpen}: its trigger opens it,
\* dismissing it closes it.
SetIsAddDialogOpen ==
    /\ Rendered
    /\ isAddDialogOpen' = ~isAddDialogOpen
    /\ UNCHANGED <<passwords, loading, showPasswords, editingPassword, formData,
                   store, nextId, calls>>
    /\ NoToast

\* --------------------------------------------------- the remote store serves
\* .select('*').order('created_at', { ascending: false }) -> { data, error }
ServeList(i, mayFail) ==
    /\ calls[i].kind = "list" /\ calls[i].stage = "sent"
    /\ \E error \in (IF mayFail THEN BOOLEAN ELSE {FALSE}) :
         calls' = [calls EXCEPT ![i] =
                     Served(@, error, IF error THEN <<>> ELSE OrderDesc(store))]
    /\ NoToast
    /\ UNCHANGED <<local, store, nextId>>

\* .insert([formData]) -> { error }: the store assigns id and created_at.
ServeInsert(i) ==
    /\ calls[i].kind = "insert" /\ calls[i].stage = "sent"
    /\ \E error \in (IF nextId <= MaxId THEN BOOLEAN ELSE {TRUE}) :
         /\ calls' = [calls EXCEPT ![i] = Served(@, error, <<>>)]
         /\ IF error
            THEN UNCHANGED <<store, nextId>>
            ELSE /\ store' = store \cup
                        {[id |-> nextId, website |-> calls[i].payload.website,
                          username |-> calls[i].payload.username,
                          password |-> calls[i].payload.password,
                          notes |-> calls[i].payload.notes, created_at |-> nextId]}
                 /\ nextId' = nextId + 1
    /\ NoToast
    /\ UNCHANGED local

\* .update(formData).eq('id', editingPassword.id) -> { error }
ServeUpdate(i) ==
    /\ calls[i].kind = "update" /\ calls[i].stage = "sent"
    /\ \E error \in BOOLEAN :
         /\ calls' = [calls EXCEPT ![i] = Served(@, error, <<>>)]
         /\ IF error
            THEN UNCHANGED store
            ELSE store' = {IF r.id = calls[i].id
                           THEN [r EXCEPT !.website = calls[i].payload.website,
                                          !.username = calls[i].payload.username,
                                          !.password = calls[i].payload.password,
                                          !.notes = calls[i].payload.notes]
                           ELSE r : r \in store}
    /\ NoToast
    /\ UNCHANGED <<local, nextId>>

\* .delete().eq('id', id) -> { error }
ServeDelete(i) ==
    /\ calls[i].kind = "delete" /\ calls[i].stage = "sent"
    /\ \E error \in BOOLEAN :
         /\ calls' = [calls EXCEPT ![i] = Served(@, error, <<>>)]
         /\ IF error
            THEN UNCHANGED store
            ELSE store' = {r \in store : r.id # calls[i].id}
    /\ NoToast
    /\ UNCHANGED <<local, nextId>>

\* ------------------------------------------------------------ specifications
Next ==
    \/ GeneratePassword(MainTapes)
    \/ SetField
    \/ HandleSubmit
    \/ DeletePassword
    \/ CopyToClipboard
    \/ TogglePasswordVisibility
    \/ BeginEdit
    \/ CancelEdit
    \/ SetIsAddDialogOpen
    \/ \E i \in DOMAIN calls : FetchPasswordsResume(i)
    \/ \E i \in DOMAIN calls : HandleSubmitResume(i)
    \/ \E i \in DOMAIN calls : DeletePasswordResume(i)
    \/ \E i \in DOMAIN calls : ServeList(i, TRUE)
    \/ \E i \in DOMAIN calls : ServeInsert(i)
    \/ \E i \in DOMAIN calls : ServeUpdate(i)
    \/ \E i \in DOMAIN calls : ServeDelete(i)

Spec == Init /\ [][Next]_vars

\* The same component when every list call succeeds.
NextListOk ==
    \/ GeneratePassword(MainTapes)
    \/ SetField
    \/ HandleSubmit
    \/ DeletePassword
    \/ CopyToClipboard
    \/ TogglePasswordVisibility
    \/ BeginEdit
    \/ CancelEdit
    \/ SetIsAddDialogOpen
    \/ \E i \in DOMAIN calls : FetchPasswordsResume(i)
    \/ \E i \in DOMAIN calls : HandleSubmitResume(i)
    \/ \E i \in DOMAIN calls : DeletePasswordResume(i)
    \/ \E i \in DOMAIN calls : ServeList(i, FALSE)
    \/ \E i \in DOMAIN calls : ServeInsert(i)
    \/ \E i \in DOMAIN calls : ServeUpdate(i)
    \/ \E i \in DOMAIN calls : ServeDelete(i)

SpecListOk == Init /\ [][NextListOk]_vars

\* The component mounted over a table of two rows, and a user who looks at the
\* cards: shows and hides passwords, copies, deletes.
InitView ==
    /\ passwords = <<>>
    /\ loading = TRUE
    /\ showPasswords = <<>>
    /\ isAddDialogOpen = FALSE
    /\ editingPassword = NoPassword
    /\ formData = EmptyForm
    /\ toasts = "none"
    /\ store = {SeedRow, SeedRow2}
    /\ nextId = Cardinality(store) + 1
    /\ calls = <<Call("list", 0, EmptyForm)>>

NextView ==
    \/ DeletePassword
    \/ CopyToClipboard
    \/ TogglePasswordVisibility
    \/ \E i \in DOMAIN calls : FetchPasswordsResume(i)
    \/ \E i \in DOMAIN calls : DeletePasswordResume(i)
    \/ \E i \in DOMAIN calls : ServeList(i, TRUE)
    \/ \E i \in DOMAIN calls : ServeDelete(i)

SpecView == InitView /\ [][NextView]_vars

\* The add dialog and its Generate button, over every outcome in Tapes.
NextGen ==
    \/ GeneratePassword(Tapes)
    \/ SetIsAddDialogOpen
    \/ \E i \in DOMAIN calls : FetchPasswordsResume(i)
    \/ \E i \in DOMAIN calls : ServeList(i, TRUE)

SpecGen == Init /\ [][NextGen]_vars

\* ------------------------------------------------------------------ claims
\* The step returns call i to the handler that awaits it.
Returns(i) ==
    /\ calls[i].stage = "served"
    /\ calls' # calls
    /\ Len(calls') \in {Len(calls) - 1, Len(calls)}
    /\ SubSeq(calls', 1, Len(calls) - 1) = Remove(calls, i)
ReturnsOk(i, kinds) == calls[i].kind \in kinds /\ ~calls[i].error /\ Returns(i)
ReturnsError(i, kinds) == calls[i].kind \in kinds /\ calls[i].error /\ Returns(i)
Mutating == {"insert", "update", "delete"}
ListCalls(cs) == Cardinality({k \in DOMAIN cs : cs[k].kind = "list"})

\* C1: passwords changes only in a step that returns a successful list call,
\* and such a step sets passwords to the list the call returned; every other
\* step (a failed list, any insert, update or delete response, every other
\* handler) leaves passwords as it was.
C1_RecordsChangeOnlyOnList ==
    [][/\ \A i \in DOMAIN calls :
             ReturnsOk(i, {"list"}) => passwords' = calls[i].data
       /\ passwords' # passwords =>
             \E i \in DOMAIN calls : ReturnsOk(i, {"list"})]_vars

\* A failed delete has just been reported and the record is still listed.
C1_Witness ==
    /\ toasts = "Failed to delete password"
    /\ passwords # <<>>

\* C2: one list call is in flight when the component starts, and every step
\* that returns a successful insert, update or delete issues one list call.
C2_RefreshAfterSuccess ==
    /\ calls = <<Call("list", 0, EmptyForm)>>
    /\ [][\A i \in DOMAIN calls :
             ReturnsOk(i, Mutating) =>
                 calls' = Append(Remove(calls, i), Call("list", 0, EmptyForm))]_vars

\* A successful insert has just been reported and its list call is in flight.
C2_Witness ==
    /\ toasts = "Password added successfully"
    /\ ListCalls(calls) = 1

\* C3: when every list call succeeds and no remote call is in flight,
\* passwords is the content of the remote store, newest first.
C3_RecordsAreTheStore ==
    calls = <<>> => passwords = OrderDesc(store)

\* C4: a step that returns the insert or update call of a submit, with or
\* without an error, leaves formData all-empty.
C4_BufferResetAfterSubmit ==
    [][\A i \in DOMAIN calls :
          (calls[i].kind \in {"insert", "update"} /\ Returns(i)) =>
              formData' = EmptyForm]_vars

\* A failed insert has just been reported and the form is empty.
C4_Witness ==
    /\ toasts = "Failed to add password"
    /\ formData = EmptyForm

\* C5 as stated: a failed update shows "Failed to update password" and changes
\* none of passwords, editingPassword, showPasswords, isAddDialogOpen, formData.
C5_FailedUpdateChangesNothing ==
    [][\A i \in DOMAIN calls :
          ReturnsError(i, {"update"}) =>
              /\ toasts' = "Failed to update password"
              /\ UNCHANGED <<passwords, editingPassword, showPasswords,
                             isAddDialogOpen, formData>>]_vars

\* C5 as amended: a failed update shows "Failed to update password", changes
\* none of passwords, editingPassword, showPasswords and isAddDialogOpen, and
\* resets formData to all-empty.
C5_FailedUpdateResetsOnlyBuffer ==
    [][\A i \in DOMAIN calls :
          ReturnsError(i, {"update"}) =>
              /\ toasts' = "Failed to update password"
              /\ UNCHANGED <<passwords, editingPassword, showPasswords,
                             isAddDialogOpen>>
              /\ formData' = EmptyForm]_vars

\* A failed update has just been reported: the record is still listed and still
\* under edit, and the form is empty.
C5_Witness ==
    /\ toasts = "Failed to update password"
    /\ editingPassword # NoPassword
    /\ passwords # <<>>
    /\ formData = EmptyForm

\* C6: a successful update clears editingPassword and a failed one leaves it
\* as it was; a successful insert closes the add dialog and a failed one
\* leaves it as it was.
C6_LeavesFlowOnSuccessOnly ==
    [][\A i \in DOMAIN calls :
          /\ ReturnsOk(i, {"update"}) => editingPassword' = NoPassword
          /\ ReturnsError(i, {"update"}) => editingPassword' = editingPassword
          /\ ReturnsOk(i, {"insert"}) => isAddDialogOpen' = FALSE
          /\ ReturnsError(i, {"insert"}) => isAddDialogOpen' = isAddDialogOpen]_vars

\* A failed insert has just been reported and the add dialog is still open.
C6_Witness ==
    /\ toasts = "Failed to add password"
    /\ isAddDialogOpen

\* C7: at most one insert, update or delete call is in flight.
C7_OneMutatingCallInFlight ==
    Cardinality({k \in DOMAIN calls : calls[k].kind \in Mutating}) <= 1

\* C8 as stated: a generated password has 16 characters, each of the alphabet,
\* and the alphabet has 73 characters.
InAlphabet(c) == \E j \in DOMAIN chars : chars[j] = c
GeneratedShape ==
    formData.password # <<>> =>
        /\ Len(formData.password) = 16
        /\ \A k \in DOMAIN formData.password : InAlphabet(formData.password[k])
FlagIds == DOMAIN showPasswords \cup DOMAIN showPasswords' \cup {p.id : p \in Cards}
C9_ToggleIsAnInvolution ==
    /\ \A id \in {SeedRow.id, SeedRow2.id} : ~Shown(showPasswords, id)
    /\ [][showPasswords' # showPasswords =>
             /\ \E id \in FlagIds :
                  /\ Shown(showPasswords', id) = ~Shown(showPasswords, id)
                  /\ \A j \in FlagIds \ {id} :
                       Shown(showPasswords', j) = Shown(showPasswords, j)
             /\ UNCHANGED <<calls, store, passwords>>]_vars
    /\ [](\A id \in {p.id : p \in Cards} : \A j \in DOMAIN showPasswords \cup {id} :
             Shown(togglePasswordVisibility(
                       togglePasswordVisibility(showPasswords, id), id), j)
                 = Shown(showPasswords, j))

\* The first row was toggled twice and reads hidden again; the second was
\* toggled once and reads shown.
C9_Witness ==
    /\ DOMAIN showPasswords = {SeedRow.id, SeedRow2.id}
    /\ ~showPasswords[SeedRow.id]
    /\ showPasswords[SeedRow2.id]

\* C10: with no record under edit, the add dialog closed and no submit in
\* flight, formData is all-empty.
C10_BufferEmptyBetweenFlows ==
    (/\ editingPassword = NoPassword
     /\ ~isAddDialogOpen
     /\ \A k \in DOMAIN calls : calls[k].kind \notin {"insert", "update"})
        => formData = EmptyForm
====
